---- MODULE Spec2Model ----
(***************************************************************************)
(* A model of WorkPlannerApp (src/app.js): the in-memory collections       *)
(* notes / folders / tags / tasks / settings, their write-through copies   *)
(* in localStorage, the export / import of a JSON payload and the pomodoro *)
(* countdown.                                                              *)
(*                                                                         *)
(* Conventions                                                             *)
(*  - a JS object is a TLA+ record, a JS array a sequence, a JS string a   *)
(*    string; non-ASCII literals of the source are transliterated;         *)
(*  - an instant is the integer Date.now() returns (milliseconds); the ISO *)
(*    string new Date().toISOString() produces is modelled by the instant  *)
(*    it denotes (the ISO form orders lexicographically as the instants);  *)
(*  - a JSON text is a token tree <<tag, payload>> (see JSONStringify).    *)
(***************************************************************************)
EXTENDS Integers, Sequences, FiniteSets, TLC

VARIABLES
    notes,            \* this.notes
    folders,          \* this.folders
    tags,             \* this.tags
    tasks,            \* this.tasks
    settings,         \* this.settings
    ls,               \* localStorage: key -> [present, text]
    now,              \* the reading of the clock, Date.now()
    pomodoroTimer,    \* this.pomodoroTimer: handle of the last setInterval, 0 = null
    pomodoroSeconds,  \* this.pomodoroSeconds
    pomodoroRunning,  \* this.pomodoroRunning
    pomodoroMode,     \* this.pomodoroMode
    intervals,        \* handles of the armed setInterval callbacks
    notifications,    \* messages handed to showNotification, oldest first
    exported,         \* the text of the last file written by exportData
    dom,              \* the page: the data-theme attribute, whether #tagsCloud exists
    currentNoteId,    \* this.currentNoteId
    saveTimeout,      \* saveTimeout of bindEvents: whether its setTimeout callback is pending
    editor,           \* the values of #noteTitle and #markdownEditor, the badges of #tagsDisplay
    snapshot,         \* history: the collections in memory when exported was written
    hist,             \* history of the countdown and of the tag lists handed to the store
    last              \* history: the operation that produced this state

storeVars == <<notes, folders, tags, tasks, settings, ls>>
timerVars == <<pomodoroTimer, pomodoroSeconds, pomodoroRunning, pomodoroMode, intervals>>
editVars == <<currentNoteId, saveTimeout, editor>>
vars == <<notes, folders, tags, tasks, settings, ls, now, pomodoroTimer,
          pomodoroSeconds, pomodoroRunning, pomodoroMode, intervals,
          notifications, exported, dom, currentNoteId, saveTimeout, editor,
          snapshot, hist, last>>

----------------------------------------------------------------------------
(* Bounds of the model *)

MaxNotes == 2          \* createNote is disabled at this many notes
MaxFolders == 5        \* createFolder is disabled at this many folders
MaxTasks == 1          \* createTask is disabled at this many tasks
MaxTagCount == 2       \* updateTags is disabled once a count would exceed this
MaxClockSteps == 1     \* the clock advances at most this many times
MaxCompletions == 3    \* countdown completions explored by the timer
MaxNotifications == 2  \* notifications explored by export / import
MaxExports == 1        \* exportData is disabled after this many exports
MaxTimerImports == 1   \* the timer explores imports while fewer notifications were shown
MaxImports == 1        \* importData is disabled after this many imports

(* Program constants *)

DayMs == 86400000          \* one calendar day, the resolution of toDateString
SecondsPerMinute == 60     \* settings hold minutes, pomodoroSeconds seconds
DefaultWorkMinutes == 25
DefaultBreakMinutes == 5

----------------------------------------------------------------------------
(* Sequence helpers standing for Array.prototype methods *)

\* Array.prototype.findIndex, 1-based; 0 stands for -1
FindIndex(seq, P(_)) ==
    IF \E i \in 1..Len(seq) : P(seq[i])
    THEN CHOOSE i \in 1..Len(seq) : P(seq[i]) /\ \A j \in 1..(i-1) : ~P(seq[j])
    ELSE 0

\* Array.prototype.filter
Filter(seq, P(_)) == SelectSeq(seq, P)

\* Array.prototype.splice(index, 1)
Splice1(seq, i) == SubSeq(seq, 1, i-1) \o SubSeq(seq, i+1, Len(seq))

\* Array.prototype.unshift
Unshift(seq, x) == <<x>> \o seq

\* { ...old, ...updates }
Merge(old, updates) ==
    [k \in DOMAIN old \cup DOMAIN updates |->
        IF k \in DOMAIN updates THEN updates[k] ELSE old[k]]

----------------------------------------------------------------------------
(* JSON.stringify / JSON.parse.  A JSON text is a token tree: a scalar is    *)
(* <<"string"|"number"|"boolean", v>>, null is <<"null">>, an array is     *)
(* <<"array", elements>>, an object is <<"object", <<key, text>> pairs>>    *)
(* in property order.                                                      *)

Null == "null"      \* the in-memory value null (task.dueDate)

KeyOrder ==
    << "id", "title", "content", "tags", "folder", "starred", "createdAt",
       "updatedAt", "wordCount", "name", "color", "count", "description",
       "column", "dueDate", "priority", "theme", "editor", "fontSize",
       "lineHeight", "wordWrap", "pomodoro", "workDuration", "breakDuration",
       "autoSave" >>

\* (createdAt / updatedAt / exportDate are ISO strings, held as instants;
\* lineHeight 1.6 is held as the string "1.6": the program never computes with it)
StringKeys == {"id", "title", "content", "folder", "name", "color", "description",
               "column", "priority", "theme", "createdAt", "updatedAt"}
NumberKeys == {"wordCount", "count", "fontSize", "lineHeight",
               "workDuration", "breakDuration"}
BooleanKeys == {"starred", "wordWrap", "autoSave"}
ObjectKeys == {"editor", "pomodoro"}

RECURSIVE StringifyObject(_)
StringifyField(k, v) ==
    CASE k \in StringKeys  -> <<"string", v>>
      [] k \in NumberKeys  -> <<"number", v>>
      [] k \in BooleanKeys -> <<"boolean", v>>
      [] k = "dueDate"     -> <<"null">>
      [] k = "tags"        -> <<"array", [i \in DOMAIN v |-> <<"string", v[i]>>]>>
      [] k \in ObjectKeys  -> StringifyObject(v)
      [] OTHER             -> <<"array", [i \in DOMAIN v |-> StringifyObject(v[i])]>>

StringifyObject(r) ==
    LET ks == SelectSeq(KeyOrder, LAMBDA k : k \in DOMAIN r)
    IN  <<"object", [i \in DOMAIN ks |-> <<ks[i], StringifyField(ks[i], r[ks[i]])>>]>>

\* JSON.stringify of one of the five collections
JSONStringify(key, value) ==
    IF key = "settings" THEN StringifyObject(value)
    ELSE <<"array", [i \in DOMAIN value |-> StringifyObject(value[i])]>>

\* the property order of the object exportData builds
ExportKeyOrder == <<"notes", "folders", "tasks", "settings", "tags", "exportDate">>

\* JSON.stringify of the export object: the top-level "tags" holds tag records
StringifyExport(data) ==
    LET ks == SelectSeq(ExportKeyOrder, LAMBDA k : k \in DOMAIN data)
    IN  <<"object", [i \in DOMAIN ks |->
            <<ks[i], IF ks[i] = "exportDate" THEN <<"string", data[ks[i]]>>
                     ELSE JSONStringify(ks[i], data[ks[i]])>>]>>

RECURSIVE JSONParse(_)
JSONParse(text) ==
    CASE text[1] \in {"string", "number", "boolean"} -> text[2]
      [] text[1] = "null"   -> Null
      [] text[1] = "array"  -> [i \in DOMAIN text[2] |-> JSONParse(text[2][i])]
      [] text[1] = "object" ->
            LET pairs == text[2]
                \* a repeated key keeps its last value
                At(k) == CHOOSE i \in DOMAIN pairs :
                            pairs[i][1] = k /\ \A j \in DOMAIN pairs : j > i => pairs[j][1] # k
            IN  [k \in {pairs[i][1] : i \in DOMAIN pairs} |-> JSONParse(pairs[At(k)][2])]

----------------------------------------------------------------------------
(* localStorage *)

StorageKeys == {"notes", "folders", "tasks", "settings", "tags"}

NoItem == [present |-> FALSE, text |-> <<>>]
Item(text) == [present |-> TRUE, text |-> text]

EmptyStorage == [k \in StorageKeys |-> NoItem]

\* JSON.parse(localStorage.getItem(key) || '[]')   ('{}' for settings)
LoadItem(store, key) ==
    IF store[key].present THEN JSONParse(store[key].text)
    ELSE IF key = "settings" THEN [x \in {} |-> x] ELSE <<>>

\* localStorage.setItem(key, JSON.stringify(value))
SetItem(store, key, value) == [store EXCEPT ![key] = Item(JSONStringify(key, value))]

----------------------------------------------------------------------------
(* Folder counts *)

CountIn(ns, folderId) == Len(Filter(ns, LAMBDA n : n.folder = folderId))

\* the forEach of updateFolderCounts: every folder's count recomputed
UpdateFolderCounts(fs, ns) == [i \in DOMAIN fs |-> [fs[i] EXCEPT !.count = CountIn(ns, fs[i].id)]]

DefaultFolders ==
    << [id |-> "work",  name |-> "Work",  color |-> "#3b82f6", count |-> 0],
       [id |-> "study", name |-> "Study", color |-> "#10b981", count |-> 0],
       [id |-> "ideas", name |-> "Ideas", color |-> "#f59e0b", count |-> 0],
       [id |-> "goals", name |-> "Goals", color |-> "#ef4444", count |-> 0] >>

DefaultSettings ==
    [ theme    |-> "light",
      editor   |-> [fontSize |-> 16, lineHeight |-> "1.6", wordWrap |-> TRUE],
      pomodoro |-> [workDuration |-> DefaultWorkMinutes, breakDuration |-> DefaultBreakMinutes],
      autoSave |-> TRUE ]

\* (mutant of LoadData: the closing updateFolderCounts forgotten)
LoadData_NoRecount(store) ==
    LET ns  == LoadItem(store, "notes")
        fs0 == LoadItem(store, "folders")
        ts  == LoadItem(store, "tasks")
        st0 == LoadItem(store, "settings")
        tg  == LoadItem(store, "tags")
        fs1 == IF Len(fs0) = 0 THEN DefaultFolders ELSE fs0
        s1  == IF Len(fs0) = 0 THEN SetItem(store, "folders", fs1) ELSE store
        st1 == IF DOMAIN st0 = {} THEN DefaultSettings ELSE st0
        s2  == IF DOMAIN st0 = {} THEN SetItem(s1, "settings", st1) ELSE s1
    IN  [ notes |-> ns, folders |-> fs1, tasks |-> ts, settings |-> st1, tags |-> tg,
          ls |-> s2 ]

\* loadData: the five collections read from store, the defaults installed and
\* persisted, the folder counts recomputed and persisted
LoadData(store) ==
    LET ns  == LoadItem(store, "notes")
        fs0 == LoadItem(store, "folders")
        ts  == LoadItem(store, "tasks")
        st0 == LoadItem(store, "settings")
        tg  == LoadItem(store, "tags")
        fs1 == IF Len(fs0) = 0 THEN DefaultFolders ELSE fs0
        s1  == IF Len(fs0) = 0 THEN SetItem(store, "folders", fs1) ELSE store
        st1 == IF DOMAIN st0 = {} THEN DefaultSettings ELSE st0
        s2  == IF DOMAIN st0 = {} THEN SetItem(s1, "settings", st1) ELSE s1
        fs2 == UpdateFolderCounts(fs1, ns)
    IN  [ notes |-> ns, folders |-> fs2, tasks |-> ts, settings |-> st1, tags |-> tg,
          ls |-> SetItem(s2, "folders", fs2) ]

----------------------------------------------------------------------------
(* The store: the five collections and localStorage as one value, so that   *)
(* an operation is a function from store to store.                         *)

Store == [ notes |-> notes, folders |-> folders, tags |-> tags, tasks |-> tasks,
           settings |-> settings, ls |-> ls ]

Becomes(S) ==
    /\ notes' = S.notes
    /\ folders' = S.folders
    /\ tags' = S.tags
    /\ tasks' = S.tasks
    /\ settings' = S.settings
    /\ ls' = S.ls

SaveFolders(S)  == [S EXCEPT !.ls = SetItem(S.ls, "folders", S.folders)]
SaveTasks(S)    == [S EXCEPT !.ls = SetItem(S.ls, "tasks", S.tasks)]
SaveSettings(S) == [S EXCEPT !.ls = SetItem(S.ls, "settings", S.settings)]
SaveTags(S)     == [S EXCEPT !.ls = SetItem(S.ls, "tags", S.tags)]

\* updateFolderCounts: recompute every count, then saveFolders
UpdateFolderCountsOp(S) ==
    SaveFolders([S EXCEPT !.folders = UpdateFolderCounts(S.folders, S.notes)])

\* (mutant of SaveNotes: the call of updateFolderCounts forgotten)
SaveNotes_NoRecount(S) == [S EXCEPT !.ls = SetItem(S.ls, "notes", S.notes)]

\* saveNotes: persist the notes, (updateStats touches the page only,) then
\* updateFolderCounts
SaveNotes(S) ==
    UpdateFolderCountsOp([S EXCEPT !.ls = SetItem(S.ls, "notes", S.notes)])

\* (mutant of UpdateTag: the name pushed again where the count should grow)
UpdateTag_PushAgain(tgs, tag) == Append(tgs, [name |-> tag, count |-> 1])

\* the body of the forEach of updateTags, for one tag name
UpdateTag(tgs, tag) ==
    IF ~(\E i \in DOMAIN tgs : tgs[i].name = tag)
    THEN Append(tgs, [name |-> tag, count |-> 1])
    ELSE LET tagIndex == FindIndex(tgs, LAMBDA t : t.name = tag)
         IN  [tgs EXCEPT ![tagIndex].count = @ + 1]

RECURSIVE UpdateTagsFrom(_, _, _)
UpdateTagsFrom(tgs, newTags, i) ==
    IF i > Len(newTags) THEN tgs
    ELSE UpdateTagsFrom(UpdateTag(tgs, newTags[i]), newTags, i + 1)

\* updateTags(newTags)
UpdateTagsOp(S, newTags) ==
    SaveTags([S EXCEPT !.tags = UpdateTagsFrom(S.tags, newTags, 1)])

\* the note object createNote builds: Date.now() reads tId, the first
\* new Date() reads tCreated, the second new Date() reads tUpdated
NewNoteAt(title, content, tgs, folder, tId, tCreated, tUpdated) ==
    [ id |-> ToString(tId), title |-> title, content |-> content, tags |-> tgs,
      folder |-> folder, starred |-> FALSE, createdAt |-> tCreated,
      updatedAt |-> tUpdated, wordCount |-> Len(content) ]

\* the note object createNote builds when its three readings of the clock
\* all give t
NewNote(title, content, tgs, folder, t) ==
    NewNoteAt(title, content, tgs, folder, t, t, t)

\* createNote from the unshift on, for the note object it has built
CreateNoteWith(S, note) ==
    LET S1 == SaveNotes([S EXCEPT !.notes = Unshift(S.notes, note)])
    IN  UpdateTagsOp(S1, note.tags)

\* createNote(title, content, tags, folder) at clock reading t
CreateNoteOp(S, title, content, tgs, folder, t) ==
    CreateNoteWith(S, NewNote(title, content, tgs, folder, t))

\* a JS condition on a string-valued property: absent (undefined) and ''
\* are falsy
TruthyString(r, k) == k \in DOMAIN r /\ r[k] # ""

\* the object updateNote stores at notes[index]
UpdatedNote(old, updates, t) ==
    [ Merge(old, updates) EXCEPT
        !.updatedAt = t,
        !.wordCount = IF TruthyString(updates, "content")
                      THEN Len(updates.content) ELSE Len(old.content) ]

\* (mutant of UpdateNoteOp: saveNotes called outside the if)
UpdateNoteOp_SaveAnyway(S, id, updates, t) ==
    LET index == FindIndex(S.notes, LAMBDA n : n.id = id)
    IN  IF index # 0
        THEN LET S1 == SaveNotes([S EXCEPT !.notes[index] = UpdatedNote(S.notes[index], updates, t)])
             IN  IF "tags" \in DOMAIN updates THEN UpdateTagsOp(S1, updates.tags) ELSE S1
        ELSE SaveNotes(S)

\* updateNote(id, updates) at clock reading t
UpdateNoteOp(S, id, updates, t) ==
    LET index == FindIndex(S.notes, LAMBDA n : n.id = id)
    IN  IF index # 0
        THEN LET S1 == SaveNotes([S EXCEPT !.notes[index] = UpdatedNote(S.notes[index], updates, t)])
             IN  IF "tags" \in DOMAIN updates THEN UpdateTagsOp(S1, updates.tags) ELSE S1
        ELSE S

\* deleteNote(id)
DeleteNoteOp(S, id) ==
    LET index == FindIndex(S.notes, LAMBDA n : n.id = id)
    IN  IF index # 0 THEN SaveNotes([S EXCEPT !.notes = Splice1(S.notes, index)]) ELSE S

----------------------------------------------------------------------------
(* Queries *)

Absent == [id |-> "undefined"]     \* what Array.prototype.find returns on no match

\* getNote(id)
GetNote(ns, id) ==
    LET index == FindIndex(ns, LAMBDA n : n.id = id)
    IN  IF index # 0 THEN ns[index] ELSE Absent

\* new Date(instant).toDateString(): the calendar day of an instant
DateString(t) == t \div DayMs

\* getNotesByFolder(folderId) at clock reading t
GetNotesByFolder(ns, folderId, t) ==
    IF folderId = "all" THEN ns
    ELSE IF folderId = "starred" THEN Filter(ns, LAMBDA n : n.starred)
    ELSE IF folderId = "today"
         THEN Filter(ns, LAMBDA n : DateString(n.updatedAt) = DateString(t))
    ELSE Filter(ns, LAMBDA n : n.folder = folderId)

Upper == "ABCDEFGHIJKLMNOPQRSTUVWXYZ"
Lower == "abcdefghijklmnopqrstuvwxyz"

\* String.prototype.toLowerCase
RECURSIVE ToLowerCase(_)
ToLowerCase(s) ==
    IF Len(s) = 0 THEN s
    ELSE LET c == SubSeq(s, 1, 1)
             u == {i \in 1..Len(Upper) : SubSeq(Upper, i, i) = c}
             lc == IF u = {} THEN c ELSE LET i == CHOOSE i \in u : TRUE IN SubSeq(Lower, i, i)
         IN  lc \o ToLowerCase(SubSeq(s, 2, Len(s)))

\* String.prototype.includes
Includes(s, q) == \E i \in 1..(Len(s) - Len(q) + 1) : SubSeq(s, i, i + Len(q) - 1) = q

\* searchNotes(query)
SearchNotes(ns, query) ==
    IF query = "" THEN ns
    ELSE LET lowerQuery == ToLowerCase(query)
         IN  Filter(ns, LAMBDA n :
                \/ Includes(ToLowerCase(n.title), lowerQuery)
                \/ Includes(ToLowerCase(n.content), lowerQuery)
                \/ \E i \in DOMAIN n.tags : Includes(ToLowerCase(n.tags[i]), lowerQuery))

----------------------------------------------------------------------------
(* Tags, folders, tasks, theme *)

\* where x goes in a sequence sorted by descending count: behind every element
\* whose count is not smaller (Array.prototype.sort is stable)
RECURSIVE SortByCountDesc(_)
SortByCountDesc(seq) ==
    IF Len(seq) <= 1 THEN seq
    ELSE LET front == SortByCountDesc(SubSeq(seq, 1, Len(seq) - 1))
             x     == seq[Len(seq)]
             keep  == Cardinality({i \in DOMAIN front : front[i].count >= x.count})
         IN  SubSeq(front, 1, keep) \o <<x>> \o SubSeq(front, keep + 1, Len(front))

\* Array.prototype.slice(0, limit)
Slice(seq, limit) == SubSeq(seq, 1, IF limit < Len(seq) THEN limit ELSE Len(seq))

\* getPopularTags(limit): this.tags.sort(...) sorts this.tags itself
GetPopularTagsOp(S) == [S EXCEPT !.tags = SortByCountDesc(S.tags)]
GetPopularTagsResult(S, limit) == Slice(SortByCountDesc(S.tags), limit)

\* renderTags: returns at once on a page without #tagsCloud
RenderTags(S, page) == IF page.tagsCloud THEN GetPopularTagsOp(S) ELSE S

\* String.prototype.replace(/\s+/g, '-')
RECURSIVE ReplaceWhitespaceRuns(_, _)
ReplaceWhitespaceRuns(s, inRun) ==
    IF Len(s) = 0 THEN s
    ELSE LET c == SubSeq(s, 1, 1)
             rest == SubSeq(s, 2, Len(s))
         IN  IF c = " "
             THEN (IF inRun THEN "" ELSE "-") \o ReplaceWhitespaceRuns(rest, TRUE)
             ELSE c \o ReplaceWhitespaceRuns(rest, FALSE)

\* name.toLowerCase().replace(/\s+/g, '-')
FolderId(name) == ReplaceWhitespaceRuns(ToLowerCase(name), FALSE)

\* createFolder(name, color)
CreateFolderOp(S, name, color) ==
    LET folder == [id |-> FolderId(name), name |-> name, color |-> color, count |-> 0]
    IN  SaveFolders([S EXCEPT !.folders = Append(S.folders, folder)])

\* createTask(title, description, column) at clock reading t
CreateTaskOp(S, title, description, column, t) ==
    LET task == [ id |-> ToString(t), title |-> title, description |-> description,
                  column |-> column, createdAt |-> t, dueDate |-> Null,
                  priority |-> "medium", tags |-> <<>> ]
    IN  SaveTasks([S EXCEPT !.tasks = Append(S.tasks, task)])

\* updateTask(id, updates)
UpdateTaskOp(S, id, updates) ==
    LET index == FindIndex(S.tasks, LAMBDA t : t.id = id)
    IN  IF index # 0
        THEN SaveTasks([S EXCEPT !.tasks[index] = Merge(S.tasks[index], updates)])
        ELSE S

\* deleteTask(id)
DeleteTaskOp(S, id) ==
    LET index == FindIndex(S.tasks, LAMBDA t : t.id = id)
    IN  IF index # 0 THEN SaveTasks([S EXCEPT !.tasks = Splice1(S.tasks, index)]) ELSE S

\* getTasksByColumn(column)
GetTasksByColumn(ts, column) == Filter(ts, LAMBDA t : t.column = column)

\* toggleTheme: the new theme, from the page's data-theme attribute
ToggledTheme(page) == IF page.dataTheme = "dark" THEN "light" ELSE "dark"

\* toggleTheme: this.settings.theme = newTheme; saveSettings()
ToggleThemeOp(S, page) ==
    LET st == [k \in DOMAIN S.settings \cup {"theme"} |->
                  IF k = "theme" THEN ToggledTheme(page) ELSE S.settings[k]]
    IN  SaveSettings([S EXCEPT !.settings = st])

----------------------------------------------------------------------------
(* Export and import *)

\* the object exportData(type) stringifies, at clock reading t
ExportObject(S, type, t) ==
    IF type = "all"
    THEN [ notes |-> S.notes, folders |-> S.folders, tasks |-> S.tasks,
           settings |-> S.settings, tags |-> S.tags, exportDate |-> t ]
    ELSE [ notes |-> S.notes, exportDate |-> t ]

\* the text of the file exportData(type) offers for download
ExportText(S, type, t) == StringifyExport(ExportObject(S, type, t))

\* if (data.key): every value under a collection key of a payload of this model
\* is an array or an object, which are truthy
HasKey(data, key) == key \in DOMAIN data

\* the five if (data.key) blocks of reader.onload, for the parsed payload data
ImportAssignments(S, data) ==
    LET S1 == IF HasKey(data, "notes")
              THEN SaveNotes([S EXCEPT !.notes = data.notes]) ELSE S
        S2 == IF HasKey(data, "folders")
              THEN SaveFolders([S1 EXCEPT !.folders = data.folders]) ELSE S1
        S3 == IF HasKey(data, "tasks")
              THEN SaveTasks([S2 EXCEPT !.tasks = data.tasks]) ELSE S2
        S4 == IF HasKey(data, "settings")
              THEN SaveSettings([S3 EXCEPT !.settings = data.settings]) ELSE S3
        S5 == IF HasKey(data, "tags")
              THEN SaveTags([S4 EXCEPT !.tags = data.tags]) ELSE S4
    IN  S5

\* the try block of reader.onload, for the parsed payload data: the five
\* blocks, then renderFolders(); renderNotes(); renderTags(); updateStats()
ImportParsed(S, data, page) == RenderTags(ImportAssignments(S, data), page)

\* reader.onload for a file holding text
ImportDataOp(S, text, page) == ImportParsed(S, JSONParse(text), page)

----------------------------------------------------------------------------
(* The pomodoro countdown *)

\* this.settings.pomodoro?.workDuration * 60 || 25 * 60
WorkSeconds(st) ==
    IF /\ "pomodoro" \in DOMAIN st
       /\ "workDuration" \in DOMAIN st.pomodoro
       /\ st.pomodoro.workDuration * SecondsPerMinute # 0
    THEN st.pomodoro.workDuration * SecondsPerMinute
    ELSE DefaultWorkMinutes * SecondsPerMinute

\* this.settings.pomodoro?.breakDuration * 60 || 5 * 60
BreakSeconds(st) ==
    IF /\ "pomodoro" \in DOMAIN st
       /\ "breakDuration" \in DOMAIN st.pomodoro
       /\ st.pomodoro.breakDuration * SecondsPerMinute # 0
    THEN st.pomodoro.breakDuration * SecondsPerMinute
    ELSE DefaultBreakMinutes * SecondsPerMinute

Timer == [ timer |-> pomodoroTimer, seconds |-> pomodoroSeconds,
           running |-> pomodoroRunning, mode |-> pomodoroMode,
           armed |-> intervals, notices |-> notifications ]

TimerBecomes(T) ==
    /\ pomodoroTimer' = T.timer
    /\ pomodoroSeconds' = T.seconds
    /\ pomodoroRunning' = T.running
    /\ pomodoroMode' = T.mode
    /\ intervals' = T.armed
    /\ notifications' = T.notices

\* the handle setInterval returns: one no armed callback and no variable holds
FreshHandle(T) == CHOOSE h \in 1..(Cardinality(T.armed) + 2) :
                    /\ h \notin T.armed \cup {T.timer}
                    /\ \A g \in 1..(h-1) : g \in T.armed \cup {T.timer}

\* (mutant of StartPomodoro: the early return on a running timer forgotten)
StartPomodoro_NoGuard(T) ==
    LET h == FreshHandle(T)
    IN  [T EXCEPT !.running = TRUE, !.mode = "work", !.timer = h,
                  !.armed = T.armed \cup {h}]

\* startPomodoro
StartPomodoro(T) ==
    IF T.running THEN T
    ELSE LET h == FreshHandle(T)
         IN  [T EXCEPT !.running = TRUE, !.mode = "work", !.timer = h,
                       !.armed = T.armed \cup {h}]

\* pausePomodoro
PausePomodoro(T) ==
    IF ~T.running THEN T
    ELSE [T EXCEPT !.running = FALSE, !.armed = T.armed \ {T.timer}]

\* (mutant of ResetPomodoro: the call of pausePomodoro forgotten)
ResetPomodoro_NoPause(T, st) ==
    [T EXCEPT !.mode = "work", !.seconds = WorkSeconds(st)]

\* resetPomodoro
ResetPomodoro(T, st) ==
    [PausePomodoro(T) EXCEPT !.mode = "work", !.seconds = WorkSeconds(st)]

WorkEnded == "Work time is over! Take a break."
BreakEnded == "Break is over! Back to work."

\* pomodoroFinished
PomodoroFinished(T, st) ==
    LET T1 == PausePomodoro(T)
        T2 == IF T1.mode = "work"
              THEN [T1 EXCEPT !.mode = "break", !.seconds = BreakSeconds(st),
                              !.notices = Append(T1.notices, WorkEnded)]
              ELSE [T1 EXCEPT !.mode = "work", !.seconds = WorkSeconds(st),
                              !.notices = Append(T1.notices, BreakEnded)]
    IN  StartPomodoro(T2)

\* the callback startPomodoro hands to setInterval
TickCallback(T, st) ==
    LET T1 == [T EXCEPT !.seconds = T.seconds - 1]
    IN  IF T1.seconds <= 0 THEN PomodoroFinished(T1, st) ELSE T1

----------------------------------------------------------------------------
(* Inputs *)

Titles == {"Test"}
Contents == {"", "Hi"}
TagLists == {<<>>, <<"a">>}
FolderArgs == {"work", "today"}
FolderNames == {"Today"}
Colors == {"#3b82f6"}
Limits == {1, 10}
ClockDeltas == {DayMs}

\* the updates objects handed to updateNote by the store actions
NoteUpdates(note) ==
    {[content |-> c] : c \in Contents}


UnknownId == "none"
NoteIds == {notes[i].id : i \in DOMAIN notes} \cup {UnknownId}

----------------------------------------------------------------------------
(* The state after construction *)

\* setupTheme: the data-theme attribute
SetupTheme(st) == IF "theme" \in DOMAIN st /\ st.theme # "" THEN st.theme ELSE "light"

\* the tag names the inputs use
TagNames == {"a", "b"}

\* the editor of a page just opened: no title, no text, no tag badge
EmptyEditor == [title |-> "", content |-> "", tags |-> <<>>]

\* started / pristine / ticks follow the countdown; inserted lists the tag
\* names in the order updateTags first saw them, passed counts for each name
\* its occurrences in the lists updateTags was handed; typed is the last
\* input into #markdownEditor: the note selected then, and the text
NoHistory == [started |-> FALSE, pristine |-> TRUE, ticks |-> 0,
              inserted |-> <<>>, passed |-> [t \in TagNames |-> 0],
              typed |-> [id |-> Null, content |-> ""]]

\* new WorkPlannerApp() on a page whose localStorage is store
Constructed(store, tagsCloud) ==
    LET S == LoadData(store)
    IN  /\ notes = S.notes
        /\ folders = S.folders
        /\ tags = S.tags
        /\ tasks = S.tasks
        /\ settings = S.settings
        /\ ls = S.ls
        /\ now = 0
        /\ pomodoroTimer = 0
        /\ pomodoroSeconds = WorkSeconds(S.settings)
        /\ pomodoroRunning = FALSE
        /\ pomodoroMode = "work"
        /\ intervals = {}
        /\ notifications = <<>>
        /\ exported = <<>>
        /\ snapshot = <<>>
        /\ dom = [dataTheme |-> SetupTheme(S.settings), tagsCloud |-> tagsCloud]
        /\ currentNoteId = Null
        /\ saveTimeout = FALSE
        /\ editor = EmptyEditor
        /\ hist = NoHistory
        /\ last = [op |-> "init"]

\* the first run: nothing stored yet
Init == Constructed(EmptyStorage, TRUE)

----------------------------------------------------------------------------
(* Store actions *)

\* how many times a clock reading t has advanced since the page was opened
ClockSteps(t) == (t \div DayMs) + (t % DayMs)

\* time passes
AdvanceClock ==
    /\ ClockSteps(now) < MaxClockSteps
    /\ \E d \in ClockDeltas : now' = now + d
    /\ last' = [op |-> "clock"]
    /\ UNCHANGED <<storeVars, timerVars, notifications, exported, snapshot, dom, hist, editVars>>

TagCountsWithin(S) == \A i \in DOMAIN S.tags : S.tags[i].count <= MaxTagCount

\* createNote called with arguments from the given sets
CreateNoteCall(titles, contents, tagLists, folderArgs) ==
    /\ Len(notes) < MaxNotes
    /\ \E title \in titles, content \in contents, tgs \in tagLists, folder \in folderArgs :
          LET S == CreateNoteOp(Store, title, content, tgs, folder, now)
          IN  /\ TagCountsWithin(S)
              /\ Becomes(S)
              /\ last' = [op |-> "createNote", id |-> ToString(now)]
    /\ UNCHANGED <<now, timerVars, notifications, exported, snapshot, dom, editVars>>

CreateNoteFrom(titles, contents, tagLists, folderArgs) ==
    CreateNoteCall(titles, contents, tagLists, folderArgs) /\ UNCHANGED hist

\* updateNote called with the id of a stored note, or of none, and one of the
\* updates objects Updates(note) gives for that note
UpdateNoteCall(Updates(_)) ==
    /\ \E id \in NoteIds :
          LET index == FindIndex(notes, LAMBDA n : n.id = id)
              old   == IF index # 0 THEN notes[index] ELSE NewNote("", "", <<>>, "", 0)
          IN  \E updates \in Updates(old) :
                 LET S == UpdateNoteOp(Store, id, updates, now)
                 IN  /\ TagCountsWithin(S)
                     /\ Becomes(S)
                     /\ last' = [op |-> "updateNote", id |-> id, index |-> index,
                                 updates |-> updates, updatedAt |-> old.updatedAt]
    /\ UNCHANGED <<now, timerVars, notifications, exported, snapshot, dom, editVars>>

UpdateNoteFrom(Updates(_)) == UpdateNoteCall(Updates) /\ UNCHANGED hist

CreateNote == CreateNoteFrom(Titles, Contents, TagLists, FolderArgs)

UpdateNote == UpdateNoteFrom(NoteUpdates)

DeleteNote ==
    /\ \E id \in NoteIds :
          /\ Becomes(DeleteNoteOp(Store, id))
          /\ last' = [op |-> "deleteNote", id |-> id,
                      index |-> FindIndex(notes, LAMBDA n : n.id = id)]
    /\ UNCHANGED <<now, timerVars, notifications, exported, snapshot, dom, hist, editVars>>

GetPopularTags ==
    /\ \E limit \in Limits :
          /\ Becomes(GetPopularTagsOp(Store))
          /\ last' = [op |-> "getPopularTags", limit |-> limit,
                      result |-> GetPopularTagsResult(Store, limit)]
    /\ UNCHANGED <<now, timerVars, notifications, exported, snapshot, dom, hist, editVars>>

CreateFolder ==
    /\ Len(folders) < MaxFolders
    /\ \E name \in FolderNames, color \in Colors :
          /\ Becomes(CreateFolderOp(Store, name, color))
          /\ last' = [op |-> "createFolder", id |-> FolderId(name)]
    /\ UNCHANGED <<now, timerVars, notifications, exported, snapshot, dom, hist, editVars>>

Next ==
    \/ AdvanceClock
    \/ CreateNote
    \/ UpdateNote
    \/ DeleteNote
    \/ CreateFolder

Spec == Init /\ [][Next]_vars

----------------------------------------------------------------------------
(* Notes filed, edited and deleted while folders are added: SpecCounts     *)

\* the editor clears or rewrites the content of the note
ContentUpdates(note) == {[content |-> IF note.content = "" THEN "Hi" ELSE ""]}

FileNote == CreateNoteFrom({"Test"}, {"Hi"}, {<<>>}, {"work", "today"})

EditNote == UpdateNoteFrom(ContentUpdates)

NextCounts ==
    \/ AdvanceClock
    \/ FileNote
    \/ EditNote
    \/ DeleteNote
    \/ CreateFolder

SpecCounts == Init /\ [][NextCounts]_vars

----------------------------------------------------------------------------
(* Claims about the note store, checked under Spec *)

Selectors == {"all", "starred", "today", "work", "study", "ideas", "goals"}
Queries == {"", "a", "H", "test", "hi"}

HasId(seq, id) == \E i \in DOMAIN seq : seq[i].id = id

\* every folder's count is the number of notes filed under its id
CountsFresh(fs, ns) == \A i \in DOMAIN fs : fs[i].count = CountIn(ns, fs[i].id)

NoteMutated ==
    \/ last.op = "createNote"
    \/ last.op \in {"updateNote", "deleteNote"} /\ last.index # 0

\* C1: after updateNote(id, {content: c}) on a stored note, for every c and
\* the empty string too, the note's wordCount is the length of c and its
\* updatedAt is not earlier than before the call.
C1_WordCountIsContentLength ==
    (last.op = "updateNote" /\ last.index # 0 /\ DOMAIN last.updates = {"content"})
        => /\ notes[last.index].wordCount = Len(last.updates.content)
           /\ notes[last.index].updatedAt >= last.updatedAt

\* C2: the notes of the collection have pairwise distinct identifiers, also
\* when createNote ran twice at one reading of the clock.
C2_NoteIdsDistinct ==
    \A i, j \in DOMAIN notes : i # j => notes[i].id # notes[j].id

\* C3: after deleteNote(id), getNote(id) is absent and no note with that id
\* is in getNotesByFolder(s) for any selector s or in searchNotes(q) for any
\* query q.
C3_DeletedNoteIsGone ==
    last.op = "deleteNote"
        => /\ GetNote(notes, last.id) = Absent
           /\ \A sel \in Selectors : ~HasId(GetNotesByFolder(notes, sel, now), last.id)
           /\ \A q \in Queries : ~HasId(SearchNotes(notes, q), last.id)

\* C4: after createNote, updateNote on a stored id or deleteNote on a stored
\* id, every folder's count is the number of notes filed under its id, in
\* memory and in the persisted folders record.
C4_CountsFreshAfterNoteMutation ==
    NoteMutated
        => /\ CountsFresh(folders, notes)
           /\ ls["folders"].present
           /\ CountsFresh(JSONParse(ls["folders"].text), notes)

\* (checked under SpecCounts)
\* C4 witness: a note mutation has recounted a folder that createFolder had
\* added with a stale count of 0
C4_Witness ==
    /\ NoteMutated
    /\ \E i \in DOMAIN folders : folders[i].id = "today" /\ folders[i].count = 2

\* C5: in every state, whatever mix of createNote, updateNote, deleteNote and
\* createFolder led to it, every folder's count is the number of notes filed
\* under its id.
C5_CountsFreshAlways == CountsFresh(folders, notes)

----------------------------------------------------------------------------
(* The countdown under user clicks, ticks and a change of the settings:     *)
(* SpecTimer                                                               *)

ShortSettings == [DefaultSettings EXCEPT !.pomodoro = [workDuration |-> 1, breakDuration |-> 2]]
BareSettings == [theme |-> "dark"]

\* what localStorage may hold under 'workplanner_settings' when the page opens
StoredSettings == {ShortSettings, BareSettings}

\* the files the user may import while the countdown is on
SettingsFiles == {StringifyExport([settings |-> ShortSettings])}

ImportSucceeded == "Import succeeded"
ImportFailed == "Import failed: bad file format"
ExportSucceeded == "Export succeeded"

InitTimer ==
    \/ Constructed(EmptyStorage, TRUE)
    \/ \E st \in StoredSettings : Constructed(SetItem(EmptyStorage, "settings", st), TRUE)

TimerNotices == SelectSeq(notifications, LAMBDA m : m \in {WorkEnded, BreakEnded})

\* click on #startPomodoroBtn
Start ==
    /\ TimerBecomes(StartPomodoro(Timer))
    /\ hist' = [hist EXCEPT !.started = TRUE]
    /\ last' = [op |-> "start", wasRunning |-> pomodoroRunning]
    /\ UNCHANGED <<storeVars, now, exported, snapshot, dom, editVars>>

\* click on #pausePomodoroBtn
Pause ==
    /\ TimerBecomes(PausePomodoro(Timer))
    /\ hist' = [hist EXCEPT !.pristine = FALSE, !.ticks = 0]
    /\ last' = [op |-> "pause"]
    /\ UNCHANGED <<storeVars, now, exported, snapshot, dom, editVars>>

\* click on #resetPomodoroBtn
Reset ==
    /\ TimerBecomes(ResetPomodoro(Timer, settings))
    /\ hist' = [hist EXCEPT !.pristine = FALSE, !.ticks = 0]
    /\ last' = [op |-> "reset"]
    /\ UNCHANGED <<storeVars, now, exported, snapshot, dom, editVars>>

\* an armed interval fires
Tick ==
    /\ \E h \in intervals :
          LET T == TickCallback(Timer, settings)
              completes == pomodoroSeconds - 1 <= 0
          IN  /\ completes => Len(TimerNotices) < MaxCompletions
              /\ TimerBecomes(T)
              /\ last' = [op |-> "tick", completed |-> completes]
    /\ hist' = [hist EXCEPT !.ticks = IF hist.pristine THEN @ + 1 ELSE 0]
    /\ UNCHANGED <<storeVars, now, exported, snapshot, dom, editVars>>

\* reader.onload of importData for a file that parses
ImportFile(text) ==
    /\ Becomes(ImportDataOp(Store, text, dom))
    /\ notifications' = Append(notifications, ImportSucceeded)
    /\ UNCHANGED <<now, timerVars, exported, snapshot, dom, editVars>>

\* the user imports a settings file
ImportSettings ==
    /\ Len(notifications) < MaxTimerImports
    /\ \E text \in SettingsFiles : ImportFile(text)
    /\ hist' = [hist EXCEPT !.pristine = FALSE, !.ticks = 0]
    /\ last' = [op |-> "import"]

NextTimer ==
    \/ Start
    \/ Pause
    \/ Reset
    \/ Tick
    \/ ImportSettings

SpecTimer == InitTimer /\ [][NextTimer]_vars

----------------------------------------------------------------------------
(* Claims about the countdown, checked under SpecTimer *)

\* the countdown was started after the page opened and nothing but ticks
\* (and further clicks on start) happened since
Undisturbed == hist.started /\ hist.pristine

\* the work / break duration the settings configure, in seconds (25 and 5
\* minutes where the settings name none)
ConfiguredWork ==
    IF "pomodoro" \in DOMAIN settings THEN settings.pomodoro.workDuration * 60 ELSE 25 * 60
ConfiguredBreak ==
    IF "pomodoro" \in DOMAIN settings THEN settings.pomodoro.breakDuration * 60 ELSE 5 * 60

\* C6: started from the initial state with a work duration of W seconds and
\* left alone for exactly W ticks, the timer has completed exactly once, has
\* notified exactly once, and is running in mode break with the configured
\* break duration remaining.
C6_FirstCompletionEntersBreak ==
    (Undisturbed /\ hist.ticks = ConfiguredWork)
        => /\ TimerNotices = <<WorkEnded>>
           /\ pomodoroMode = "break"
           /\ pomodoroRunning
           /\ pomodoroSeconds = ConfiguredBreak

\* C7: started and never paused or reset, the completions alternate: the
\* 1st, 3rd, ... end a work countdown (break duration next, mode break), the
\* 2nd, 4th, ... end a break countdown (work duration next, mode work), and
\* each notification tells which.
C7_CompletionsAlternate ==
    Undisturbed
        => /\ \A i \in DOMAIN TimerNotices :
                TimerNotices[i] = IF i % 2 = 1 THEN WorkEnded ELSE BreakEnded
           /\ (last.op = "tick" /\ last.completed)
                => IF Len(TimerNotices) % 2 = 1
                   THEN pomodoroMode = "break" /\ pomodoroSeconds = ConfiguredBreak
                   ELSE pomodoroMode = "work" /\ pomodoroSeconds = ConfiguredWork

\* the state reset leaves
ResetPost ==
    last.op = "reset"
        => /\ ~pomodoroRunning
           /\ pomodoroMode = "work"
           /\ pomodoroSeconds = ConfiguredWork
           /\ intervals = {}

\* C8: from every state, reset leaves the timer not running, in mode work,
\* with the work duration the settings configure at that moment remaining,
\* and no tick happens while the timer is not running.
C8_ResetRestoresWork ==
    /\ []ResetPost
    /\ [][~pomodoroRunning => last'.op # "tick"]_vars

\* C8 witness: a reset of a timer that was running after a completion, under
\* settings imported since the page opened
C8_Witness ==
    /\ last.op = "reset"
    /\ TimerNotices # <<>>
    /\ ImportSucceeded \in {notifications[i] : i \in DOMAIN notifications}
    /\ pomodoroSeconds = 60

\* one armed callback while running, none otherwise
ArmedMatchesRunning == Cardinality(intervals) = IF pomodoroRunning THEN 1 ELSE 0

\* start on a running timer arms nothing
StartIsIdempotent == (last'.op = "start" /\ pomodoroRunning) => intervals' = intervals

\* C9 as claimed: one armed callback exactly while running, start while
\* running arms no second one, and between a pause and the next start the
\* remaining seconds never change.
C9_ArmedOnceSecondsFrozen ==
    /\ []ArmedMatchesRunning
    /\ [][StartIsIdempotent]_vars
    /\ [][(~pomodoroRunning /\ ~pomodoroRunning') => pomodoroSeconds' = pomodoroSeconds]_vars

\* C9 as amended: one armed callback exactly while running, start while
\* running arms no second one, and while the timer is not running the
\* remaining seconds change only by a reset, which sets them to the
\* configured work duration.
C9_ArmedOnceSecondsChangeByResetOnly ==
    /\ []ArmedMatchesRunning
    /\ [][StartIsIdempotent]_vars
    /\ [][(~pomodoroRunning /\ ~pomodoroRunning' /\ pomodoroSeconds' # pomodoroSeconds)
            => (last'.op = "reset" /\ pomodoroSeconds' = ConfiguredWork')]_vars

\* C9 witness: start was clicked on a timer that was already running after a
\* completion, and one callback is armed
C9_Witness ==
    /\ last.op = "start"
    /\ last.wasRunning
    /\ TimerNotices # <<>>
    /\ Cardinality(intervals) = 1

----------------------------------------------------------------------------
(* Export and import of a file between store operations: SpecExchange      *)

ExportTypes == {"all", "notes"}

\* the tag input of the editor adds a tag to the note
TagUpdates(note) == {[tags |-> <<"b">>]}

InitExchange == \E tagsCloud \in BOOLEAN : Constructed(EmptyStorage, tagsCloud)

CreateTaggedNote == CreateNoteFrom({"Test"}, {"Hi"}, {<<"a">>, <<"b">>}, {"today"})

RetagNote == UpdateNoteFrom(TagUpdates)

CreateTask ==
    /\ Len(tasks) < MaxTasks
    /\ Becomes(CreateTaskOp(Store, "Task", "", "todo", now))
    /\ last' = [op |-> "createTask", id |-> ToString(now)]
    /\ UNCHANGED <<now, timerVars, notifications, exported, snapshot, dom, hist, editVars>>

\* click on .theme-toggle
ToggleTheme ==
    /\ Becomes(ToggleThemeOp(Store, dom))
    /\ dom' = [dom EXCEPT !.dataTheme = ToggledTheme(dom)]
    /\ last' = [op |-> "toggleTheme"]
    /\ UNCHANGED <<now, timerVars, notifications, exported, snapshot, hist, editVars>>

Exports == Len(SelectSeq(notifications, LAMBDA m : m = ExportSucceeded))

\* exportData(type): the file is written, the success notification shown
ExportData ==
    /\ Exports < MaxExports
    /\ \E type \in ExportTypes :
          /\ exported' = ExportText(Store, type, now)
          /\ snapshot' = [ type |-> type, notes |-> notes, folders |-> folders,
                           tasks |-> tasks, settings |-> settings, tags |-> tags ]
          /\ last' = [op |-> "export", type |-> type]
    /\ notifications' = Append(notifications, ExportSucceeded)
    /\ UNCHANGED <<storeVars, now, timerVars, dom, hist, editVars>>

\* importData with the file exportData wrote
ImportExported ==
    /\ exported # <<>>
    /\ Len(notifications) < MaxNotifications
    /\ ImportFile(exported)
    /\ last' = [op |-> "import"]
    /\ UNCHANGED hist

NextExchange ==
    \/ CreateTaggedNote
    \/ RetagNote
    \/ CreateFolder
    \/ CreateTask
    \/ ToggleTheme
    \/ ExportData
    \/ ImportExported

SpecExchange == InitExchange /\ [][NextExchange]_vars

\* the five collections in memory are those of the snapshot
MemoryIsSnapshot ==
    /\ notes = snapshot.notes
    /\ folders = snapshot.folders
    /\ tasks = snapshot.tasks
    /\ settings = snapshot.settings
    /\ tags = snapshot.tags

\* the five persisted records are those of the snapshot
StorageIsSnapshot ==
    \A key \in StorageKeys :
        ls[key].present /\ JSONParse(ls[key].text) = snapshot[key]

\* C10: importing the full export of a state S yields notes, folders, tasks,
\* settings and tags equal field for field to those of S, in memory and in
\* persisted storage.
C10_ImportOfExportRestores ==
    (last.op = "import" /\ snapshot.type = "all")
        => MemoryIsSnapshot /\ StorageIsSnapshot

----------------------------------------------------------------------------
(* Import of arbitrary files between store operations: SpecImport          *)

\* JSON.parse throws a SyntaxError on a text cut before its end: such a text
\* is a token tree with an <<"unterminated">> token where the text stops
RECURSIVE Parseable(_)
Parseable(text) ==
    CASE text[1] \in {"string", "number", "boolean", "null"} -> TRUE
      [] text[1] = "array"  -> \A i \in DOMAIN text[2] : Parseable(text[2][i])
      [] text[1] = "object" -> \A i \in DOMAIN text[2] : Parseable(text[2][i][2])
      [] OTHER -> FALSE

\* the text a file holds under a key of its top-level object
TextUnder(text, key) ==
    LET pairs == text[2]
        at == CHOOSE i \in DOMAIN pairs :
                 pairs[i][1] = key /\ \A j \in DOMAIN pairs : j > i => pairs[j][1] # key
    IN  pairs[at][2]

\* Array.isArray of the value a JSON text denotes
IsArrayText(text) == text[1] = "array"

\* whether this.tags is an array: every assignment of this.tags is followed
\* by saveTags, so the persisted text tells
TagsIsArray(S) == ~S.ls["tags"].present \/ IsArrayText(S.ls["tags"].text)

\* the five if (data.key) blocks for a file that parses; under tags the file
\* may hold a truthy value that is no array, which is assigned and saved like
\* any other (JSON.stringify gives back the text it was parsed from)
ImportAssigned(S, text) ==
    LET data == JSONParse(text)
    IN  IF HasKey(data, "tags") /\ ~IsArrayText(TextUnder(text, "tags"))
        THEN LET S4 == ImportAssignments(S, [k \in DOMAIN data \ {"tags"} |-> data[k]])
             IN  [S4 EXCEPT !.tags = data.tags,
                            !.ls = [S4.ls EXCEPT !["tags"] = Item(TextUnder(text, "tags"))]]
        ELSE ImportAssignments(S, data)

\* renderTags throws a TypeError where this.tags has no sort method
RenderTagsThrows(S, page) == page.tagsCloud /\ ~TagsIsArray(S)

\* (mutant of ImportData: the catch block reports success)
ImportData_CatchSilent(S, text, page) ==
    IF ~Parseable(text) THEN [store |-> S, notice |-> ImportSucceeded]
    ELSE LET S5 == ImportAssigned(S, text)
         IN  IF RenderTagsThrows(S5, page)
             THEN [store |-> S5, notice |-> ImportSucceeded]
             ELSE [store |-> RenderTags(S5, page), notice |-> ImportSucceeded]

\* reader.onload with its try / catch: the store it leaves and the
\* notification it shows.  JSON.parse may throw before anything is assigned;
\* renderTags may throw after the five blocks have assigned and saved
ImportData(S, text, page) ==
    IF ~Parseable(text) THEN [store |-> S, notice |-> ImportFailed]
    ELSE LET S5 == ImportAssigned(S, text)
         IN  IF RenderTagsThrows(S5, page)
             THEN [store |-> S5, notice |-> ImportFailed]
             ELSE [store |-> RenderTags(S5, page), notice |-> ImportSucceeded]

\* the values the imported files hold under the five keys
PayloadValues ==
    [ notes    |-> << NewNote("Plan", "Hi", <<"b">>, "work", 7) >>,
      folders  |-> << [id |-> "work", name |-> "Work", color |-> "#3b82f6", count |-> 0] >>,
      tasks    |-> << >>,
      settings |-> ShortSettings,
      tags     |-> << [name |-> "a", count |-> 1], [name |-> "b", count |-> 2] >> ]

\* one payload for every subset of the five keys
Payloads == { [k \in K |-> PayloadValues[k]] : K \in SUBSET StorageKeys }

PayloadFiles == { StringifyExport(p) : p \in Payloads }

\* files cut short: at the very start, and inside the notes array
MalformedFiles ==
    { <<"unterminated">>,
      <<"object", << <<"notes", <<"array", << <<"unterminated">> >> >> >> >> >> }

Imports == Len(SelectSeq(notifications, LAMBDA m : m \in {ImportSucceeded, ImportFailed}))

\* importData with one of the given files
ImportFrom(files) ==
    /\ Imports < MaxImports
    /\ \E text \in files :
          LET R == ImportData(Store, text, dom)
          IN  /\ Becomes(R.store)
              /\ notifications' = Append(notifications, R.notice)
              /\ last' = [op |-> "import", text |-> text, before |-> Store]
    /\ UNCHANGED <<now, timerVars, exported, snapshot, dom, hist, editVars>>

ImportPayload == ImportFrom(PayloadFiles)

ImportMalformed == ImportFrom(MalformedFiles)

InitImport == InitExchange

NextImport ==
    \/ CreateTaggedNote
    \/ CreateFolder
    \/ CreateTask
    \/ ImportPayload

SpecImport == InitImport /\ [][NextImport]_vars

\* the collection in memory / the value of the persisted record under key
InMemory(key) == Store[key]
Persisted(key) == LoadItem(ls, key)

\* C11: after the import of a payload with any subset of the five keys, every
\* collection whose key is absent is as before the import, in memory and in
\* storage, and every collection whose key is present is the payload's value.
C11_ImportReplacesPresentKeysOnly ==
    (last.op = "import" /\ Parseable(last.text))
        => LET data == JSONParse(last.text)
           IN  \A key \in StorageKeys :
                  IF key \in DOMAIN data
                  THEN /\ InMemory(key) = data[key]
                       /\ ls[key].present /\ Persisted(key) = data[key]
                  ELSE /\ InMemory(key) = last.before[key]
                       /\ ls[key] = last.before.ls[key]

\* importData with a full file, a notes-only file or a file cut short
ImportFullOrNotes ==
    ImportFrom({ StringifyExport(PayloadValues),
                 StringifyExport([notes |-> PayloadValues.notes]) })

NextCutShort ==
    \/ CreateTaggedNote
    \/ CreateFolder
    \/ CreateTask
    \/ ImportFullOrNotes
    \/ ImportMalformed

SpecCutShort == InitImport /\ [][NextCutShort]_vars

\* (checked under SpecCutShort)
\* C12: the import of a text that is not parseable JSON shows the failure
\* notification and leaves the five collections and the five persisted
\* records as they were.
C12_MalformedImportChangesNothing ==
    (last.op = "import" /\ ~Parseable(last.text))
        => /\ notifications[Len(notifications)] = ImportFailed
           /\ Store = last.before

\* C12 witness: a malformed file was imported into a store that holds notes,
\* tags and a task
C12_Witness ==
    /\ last.op = "import"
    /\ ~Parseable(last.text)
    /\ notes # <<>> /\ tags # <<>> /\ tasks # <<>>
    /\ ImportFailed \in {notifications[i] : i \in DOMAIN notifications}

----------------------------------------------------------------------------
(* Tags attached, removed and ranked: SpecTags                             *)

\* the occurrences of tag in a tag list
Occurrences(tgs, tag) == Cardinality({i \in DOMAIN tgs : tgs[i] = tag})

\* the names of seq, then those of tgs that seq lacks, in the order of tgs
RECURSIVE FirstSeen(_, _, _)
FirstSeen(seq, tgs, i) ==
    IF i > Len(tgs) THEN seq
    ELSE FirstSeen(IF \E j \in DOMAIN seq : seq[j] = tgs[i] THEN seq ELSE Append(seq, tgs[i]),
                   tgs, i + 1)

\* the history after updateTags was handed tgs
PassedTo(h, tgs) ==
    [h EXCEPT !.inserted = FirstSeen(@, tgs, 1),
              !.passed = [t \in TagNames |-> @[t] + Occurrences(tgs, t)]]

NoteTagLists == {<<"a">>, <<"a", "b">>}
DirectTagLists == {<<"a">>, <<"b", "b">>}

\* createNote with tags
TagNote ==
    /\ CreateNoteCall({"Test"}, {"Hi"}, NoteTagLists, {"work"})
    /\ hist' = PassedTo(hist, notes'[1].tags)

\* updateNote(id, {tags}) ; on an unknown id updateTags is not reached
EditTags ==
    /\ UpdateNoteCall(TagUpdates)
    /\ hist' = IF last'.index # 0 THEN PassedTo(hist, last'.updates.tags) ELSE hist

\* updateTags(newTags) called by itself
UpdateTags ==
    /\ \E tgs \in DirectTagLists :
          LET S == UpdateTagsOp(Store, tgs)
          IN  /\ TagCountsWithin(S)
              /\ Becomes(S)
              /\ hist' = PassedTo(hist, tgs)
              /\ last' = [op |-> "updateTags", tags |-> tgs]
    /\ UNCHANGED <<now, timerVars, notifications, exported, snapshot, dom, editVars>>

\* removeTagFromCurrentNote(tag), the current note being a stored one
RemoveTag ==
    /\ \E i \in DOMAIN notes, tag \in TagNames :
          LET id      == notes[i].id
              note    == GetNote(notes, id)
              newTags == Filter(note.tags, LAMBDA t : t # tag)
              S       == UpdateNoteOp(Store, id, [tags |-> newTags], now)
          IN  /\ TagCountsWithin(S)
              /\ Becomes(RenderTags(S, dom))
              /\ hist' = PassedTo(hist, newTags)
              /\ last' = [op |-> "removeTag", id |-> id, tag |-> tag,
                          had |-> Occurrences(note.tags, tag) > 0, tags |-> newTags]
    /\ UNCHANGED <<now, timerVars, notifications, exported, snapshot, dom, editVars>>

NextTags ==
    \/ TagNote
    \/ EditTags
    \/ UpdateTags
    \/ RemoveTag
    \/ DeleteNote
    \/ GetPopularTags

SpecTags == InitExchange /\ [][NextTags]_vars

\* the position of a tag name in the order of first insertion
InsertedAt(name) == CHOOSE i \in DOMAIN hist.inserted : hist.inserted[i] = name

\* C13: getPopularTags(limit), whatever updateTags / createNote / updateNote
\* and earlier getPopularTags calls came before, returns at most limit tags,
\* by descending count, two tags of equal count in the order in which they
\* were first inserted into the tag collection.
C13_PopularTagsTiesByInsertion ==
    last.op = "getPopularTags"
        => /\ Len(last.result) <= last.limit
           /\ \A i, j \in DOMAIN last.result :
                 i < j => /\ last.result[i].count >= last.result[j].count
                          /\ last.result[i].count = last.result[j].count
                                => InsertedAt(last.result[i].name) < InsertedAt(last.result[j].name)

----------------------------------------------------------------------------
(* Claims about the folder views, checked under Spec *)

\* C14: for every folder f of the folder collection, seeded or created by
\* createFolder under any name (one that slugifies to 'today' too),
\* getNotesByFolder(f.id) is exactly the notes whose folder field is f.id, in
\* collection order, and its size is f.count after a count refresh.
C14_FolderViewIsExactMatch ==
    \A i \in DOMAIN folders :
        LET f    == folders[i]
            view == GetNotesByFolder(notes, f.id, now)
        IN  /\ view = Filter(notes, LAMBDA n : n.folder = f.id)
            /\ Len(view) = UpdateFolderCounts(folders, notes)[i].count

----------------------------------------------------------------------------
(* createNote while the clock runs: SpecCreate                             *)

\* what the clock may gain between two readings inside createNote
Lapses == {0, 1}

SeededIds == {DefaultFolders[i].id : i \in DOMAIN DefaultFolders}

\* createNote(title, content, [], folder): Date.now() and the two new Date()
\* read the clock one after the other
CreateNoteTimed ==
    /\ Len(notes) < MaxNotes
    /\ \E title \in Titles, content \in Contents, folder \in {"work", "study"},
          d1 \in Lapses, d2 \in Lapses :
          LET note == NewNoteAt(title, content, <<>>, folder, now, now + d1, now + d1 + d2)
          IN  /\ ClockSteps(now + d1 + d2) <= MaxClockSteps
              /\ Becomes(CreateNoteWith(Store, note))
              /\ now' = now + d1 + d2
              /\ last' = [op |-> "createNote", id |-> note.id, content |-> content,
                          folder |-> folder, before |-> notes]
    /\ UNCHANGED <<timerVars, notifications, exported, snapshot, dom, hist, editVars>>

NextCreate ==
    \/ AdvanceClock
    \/ CreateNoteTimed
    \/ EditNote
    \/ DeleteNote

SpecCreate == Init /\ [][NextCreate]_vars

\* C15: in any reachable store state, the note createNote(title, content,
\* tags, folder) returns has wordCount = length of content and createdAt =
\* updatedAt, and is the first element of getNotesByFolder('all') and, for a
\* seeded folder id, of getNotesByFolder(folder), the earlier notes keeping
\* their relative order behind it.
C15_CreatedNoteComesFirst ==
    last.op = "createNote"
        => LET note   == notes[1]
               all    == GetNotesByFolder(notes, "all", now)
               filed  == GetNotesByFolder(notes, last.folder, now)
           IN  /\ note.id = last.id
               /\ note.wordCount = Len(last.content)
               /\ note.createdAt = note.updatedAt
               /\ all = <<note>> \o GetNotesByFolder(last.before, "all", now)
               /\ last.folder \in SeededIds
                    => filed = <<note>> \o GetNotesByFolder(last.before, last.folder, now)

----------------------------------------------------------------------------
(* Notes and tasks addressed by id, known or not: SpecById                 *)

TaskIds == {tasks[i].id : i \in DOMAIN tasks} \cup {UnknownId}

\* the kanban board moves the task to another column
TaskUpdates == {[column |-> "done"]}

JotNote == CreateNoteFrom({"Test"}, {"Hi"}, {<<>>}, {"today"})

UpdateTask ==
    /\ \E id \in TaskIds, updates \in TaskUpdates :
          /\ Becomes(UpdateTaskOp(Store, id, updates))
          /\ last' = [op |-> "updateTask", id |-> id,
                      index |-> FindIndex(tasks, LAMBDA t : t.id = id)]
    /\ UNCHANGED <<now, timerVars, notifications, exported, snapshot, dom, hist, editVars>>

DeleteTask ==
    /\ \E id \in TaskIds :
          /\ Becomes(DeleteTaskOp(Store, id))
          /\ last' = [op |-> "deleteTask", id |-> id,
                      index |-> FindIndex(tasks, LAMBDA t : t.id = id)]
    /\ UNCHANGED <<now, timerVars, notifications, exported, snapshot, dom, hist, editVars>>

NextById ==
    \/ JotNote
    \/ EditNote
    \/ DeleteNote
    \/ CreateFolder
    \/ CreateTask
    \/ UpdateTask
    \/ DeleteTask

SpecById == Init /\ [][NextById]_vars

\* the call matched no record
MatchedNone(l) ==
    l.op \in {"updateNote", "deleteNote", "updateTask", "deleteTask"} /\ l.index = 0

\* C16: updateNote, deleteNote, updateTask and deleteTask called with an id
\* that matches no record leave notes, folders, tags, tasks and settings
\* (updatedAt and count fields too) and every persisted record unchanged.
C16_UnknownIdChangesNothing ==
    [][MatchedNone(last') => storeVars' = storeVars]_vars

\* C16 witness: updateNote matched no record while notes and a task are
\* stored and a folder's count is stale
C16_Witness ==
    /\ last.op = "updateNote" /\ last.index = 0
    /\ notes # <<>> /\ tasks # <<>>
    /\ ~CountsFresh(folders, notes)

----------------------------------------------------------------------------
(* Notes edited and starred: SpecEdit                                      *)

\* toggleStar: updateNote(currentNoteId, { starred: !note.starred })
StarUpdates(note) == {[starred |-> ~note.starred]}

StarNote == UpdateNoteFrom(StarUpdates)

NextEdit ==
    \/ AdvanceClock
    \/ FileNote
    \/ EditNote
    \/ StarNote
    \/ DeleteNote

SpecEdit == Init /\ [][NextEdit]_vars

\* C17: in any reachable store state, updateNote(id, updates) on a stored
\* note with updates that carry no content leaves the note's wordCount as it
\* was.
C17_WordCountKeptWithoutContent ==
    [][(last'.op = "updateNote" /\ last'.index # 0 /\ "content" \notin DOMAIN last'.updates)
          => notes'[last'.index].wordCount = notes[last'.index].wordCount]_vars

----------------------------------------------------------------------------
(* Claims about the tag counts, checked under SpecTags *)

\* the count the tag collection holds for a name, 0 where it has no record
CountOf(tgs, name) ==
    LET tagIndex == FindIndex(tgs, LAMBDA t : t.name = name)
    IN  IF tagIndex = 0 THEN 0 ELSE tgs[tagIndex].count

\* the names are pairwise distinct and every count is the number of
\* occurrences of its name in the lists handed to updateTags so far
TagsTally ==
    /\ \A i, j \in DOMAIN tags : i # j => tags[i].name # tags[j].name
    /\ \A i \in DOMAIN tags : tags[i].name \in TagNames
    /\ \A t \in TagNames : CountOf(tags, t) = hist.passed[t]

\* a tag that was on the note has been removed from it
TagRemoved(l) == l.op = "removeTag" /\ l.had

\* C18 as claimed: tag names stay pairwise distinct, each count is the number
\* of occurrences of the tag in the lists passed to createNote, updateNote on
\* stored ids and updateTags, and deleteNote and the removal of a tag from a
\* note change no count.
C18_CountsTallyRemovalChangesNone ==
    /\ []TagsTally
    /\ [][(last'.op = "deleteNote" \/ TagRemoved(last'))
            => \A t \in TagNames : CountOf(tags', t) = CountOf(tags, t)]_vars

\* C18 as amended: the same tally; deleteNote changes no count; the removal
\* of a tag from a note leaves the removed tag's count as it was and adds one
\* to the count of every tag that stays on the note.
C18_CountsTallyRemovalDecrementsNone ==
    /\ []TagsTally
    /\ [][last'.op = "deleteNote"
            => \A t \in TagNames : CountOf(tags', t) = CountOf(tags, t)]_vars
    /\ [][TagRemoved(last')
            => /\ CountOf(tags', last'.tag) = CountOf(tags, last'.tag)
               /\ \A t \in TagNames :
                     CountOf(tags', t) = CountOf(tags, t) + Occurrences(last'.tags, t)]_vars

\* C18 witness: a tag was removed from a note that keeps another tag, whose
\* count has grown to 2
C18_Witness ==
    /\ TagRemoved(last)
    /\ last.tags # <<>>
    /\ CountOf(tags, last.tags[1]) = 2
    /\ CountOf(tags, last.tag) = 1

----------------------------------------------------------------------------
(* Every store operation, each followed by a look at localStorage:         *)
(* SpecStore                                                               *)

NextStore ==
    \/ TagNote
    \/ EditTags
    \/ DeleteNote
    \/ UpdateTags
    \/ GetPopularTags
    \/ CreateFolder
    \/ CreateTask
    \/ UpdateTask
    \/ DeleteTask
    \/ ToggleTheme
    \/ ImportFullOrNotes

SpecStore == Init /\ [][NextStore]_vars

\* C19: between operations, after any sequence of createNote, updateNote,
\* deleteNote, updateTags, getPopularTags, createFolder, createTask,
\* updateTask, deleteTask, theme toggle and import, each of the five persisted
\* records equals the collection in memory, element order included.
C19_StorageMirrorsMemory ==
    \A key \in StorageKeys : Persisted(key) = InMemory(key)

----------------------------------------------------------------------------
(* The page reloaded, between operations or in the middle of saveNotes:     *)
(* SpecReload                                                              *)

\* saveNotes up to the point where execution stops: the notes item is
\* written, updateFolderCounts is not reached
SaveNotesCutShort(S) == [S EXCEPT !.ls = SetItem(S.ls, "notes", S.notes)]

\* localStorage as createNote, updateNote or deleteNote leaves it when
\* execution stops inside saveNotes
CutShortStorages ==
    {SaveNotesCutShort([Store EXCEPT !.notes = Unshift(notes, NewNote("Test", "Hi", <<>>, folder, now))]).ls :
        folder \in {f \in {"work", "today"} : Len(notes) < MaxNotes}}
    \cup
    {SaveNotesCutShort([Store EXCEPT !.notes[i] = UpdatedNote(notes[i], [folder |-> "work"], now)]).ls :
        i \in DOMAIN notes}
    \cup
    {SaveNotesCutShort([Store EXCEPT !.notes = Splice1(notes, i)]).ls : i \in DOMAIN notes}

\* the counts of the persisted folders record do not match the persisted notes
StaleInStorage(store) ==
    ~CountsFresh(LoadItem(store, "folders"), LoadItem(store, "notes"))

\* the page is opened again on localStorage store: new WorkPlannerApp()
ReopenedOn(store) ==
    LET S == LoadData(store)
    IN  /\ Becomes(S)
        /\ pomodoroTimer' = 0
        /\ pomodoroSeconds' = WorkSeconds(S.settings)
        /\ pomodoroRunning' = FALSE
        /\ pomodoroMode' = "work"
        /\ intervals' = {}
        /\ notifications' = <<>>
        /\ dom' = [dataTheme |-> SetupTheme(S.settings), tagsCloud |-> dom.tagsCloud]
        /\ currentNoteId' = Null
        /\ saveTimeout' = FALSE
        /\ editor' = EmptyEditor
        /\ hist' = NoHistory
        /\ UNCHANGED <<now, exported, snapshot>>

\* the page is reloaded between two operations
Reload ==
    /\ ReopenedOn(ls)
    /\ last' = [op |-> "reload", interrupted |-> FALSE, stale |-> StaleInStorage(ls)]

\* execution stops inside the saveNotes of a note mutation, then the page
\* is opened again
ReloadAfterCutShort ==
    \E store \in CutShortStorages :
        /\ ReopenedOn(store)
        /\ last' = [op |-> "reload", interrupted |-> TRUE, stale |-> StaleInStorage(store)]

NextReload ==
    \/ FileNote
    \/ EditNote
    \/ DeleteNote
    \/ CreateFolder
    \/ Reload
    \/ ReloadAfterCutShort

SpecReload == Init /\ [][NextReload]_vars

\* C20: when execution stopped after a note mutation had persisted the notes
\* record and before the folders record was rewritten, then after the next
\* loadData every folder's count is the number of loaded notes filed under
\* its id, in memory and in persisted storage.
C20_ReloadRefreshesCounts ==
    (last.op = "reload" /\ last.interrupted)
        => /\ notes = Persisted("notes")
           /\ CountsFresh(folders, notes)
           /\ ls["folders"].present
           /\ CountsFresh(Persisted("folders"), notes)

\* C20 witness: the reload found a folders record whose counts did not match
\* the notes record, and a folder now counts two notes
C20_Witness ==
    /\ last.op = "reload" /\ last.interrupted /\ last.stale
    /\ \E i \in DOMAIN folders : folders[i].count = 2

----------------------------------------------------------------------------
(* Queries between mutations: SpecQuery                                    *)

Columns == {"todo", "done"}

\* getNote(id)
GetNoteQuery ==
    /\ \E id \in NoteIds :
          last' = [op |-> "getNote", result |-> GetNote(notes, id)]
    /\ UNCHANGED <<storeVars, now, timerVars, notifications, exported, snapshot, dom, hist, editVars>>

\* getNotesByFolder(folderId)
GetNotesByFolderQuery ==
    /\ \E folderId \in Selectors :
          last' = [op |-> "getNotesByFolder", result |-> GetNotesByFolder(notes, folderId, now)]
    /\ UNCHANGED <<storeVars, now, timerVars, notifications, exported, snapshot, dom, hist, editVars>>

\* searchNotes(query)
SearchNotesQuery ==
    /\ \E query \in Queries :
          last' = [op |-> "searchNotes", result |-> SearchNotes(notes, query)]
    /\ UNCHANGED <<storeVars, now, timerVars, notifications, exported, snapshot, dom, hist, editVars>>

\* getTasksByColumn(column)
GetTasksByColumnQuery ==
    /\ \E column \in Columns :
          last' = [op |-> "getTasksByColumn", result |-> GetTasksByColumn(tasks, column)]
    /\ UNCHANGED <<storeVars, now, timerVars, notifications, exported, snapshot, dom, hist, editVars>>

NextQuery ==
    \/ TagNote
    \/ EditTags
    \/ CreateTask
    \/ GetNoteQuery
    \/ GetNotesByFolderQuery
    \/ SearchNotesQuery
    \/ GetPopularTags
    \/ GetTasksByColumnQuery

SpecQuery == Init /\ [][NextQuery]_vars

QueryOps == {"getNote", "getNotesByFolder", "searchNotes", "getPopularTags", "getTasksByColumn"}

\* C21: getNote, getNotesByFolder, searchNotes, getPopularTags and
\* getTasksByColumn leave notes, folders, tags, tasks and settings as they
\* were, the order of their elements included.
C21_QueriesChangeNothing ==
    [][last'.op \in QueryOps
          => <<notes, folders, tags, tasks, settings>>' = <<notes, folders, tags, tasks, settings>>]_vars

----------------------------------------------------------------------------
(* Typing, selecting and the debounced autosave: SpecAutosave              *)

NoteSaved == "Note saved"
TitleRequired == "Please enter a note title"

\* String.prototype.trim, for the blank the inputs use
RECURSIVE TrimStart(_)
TrimStart(s) ==
    IF Len(s) > 0 /\ SubSeq(s, 1, 1) = " " THEN TrimStart(SubSeq(s, 2, Len(s))) ELSE s
RECURSIVE TrimEnd(_)
TrimEnd(s) ==
    IF Len(s) > 0 /\ SubSeq(s, Len(s), Len(s)) = " " THEN TrimEnd(SubSeq(s, 1, Len(s) - 1)) ELSE s
Trim(s) == TrimEnd(TrimStart(s))

\* saveCurrentNote at clock reading t, for the selected note id and the
\* editor's fields: the store it leaves, the notification it shows, the id it
\* handed to updateNote (Null where it returned before)
SaveCurrentNote(S, id, ed, t) ==
    IF id = Null THEN [store |-> S, notices |-> <<>>, wrote |-> Null]
    ELSE IF Trim(ed.title) = ""
    THEN [store |-> S, notices |-> <<TitleRequired>>, wrote |-> Null]
    ELSE [ store |-> UpdateNoteOp(S, id, [title |-> Trim(ed.title), content |-> ed.content,
                                           tags |-> ed.tags], t),
           notices |-> <<NoteSaved>>, wrote |-> id ]

\* the callback the input listener hands to setTimeout
SaveTimeoutCallback(S, id, ed, t) ==
    IF id # Null /\ "autoSave" \in DOMAIN S.settings /\ S.settings.autoSave
    THEN SaveCurrentNote(S, id, ed, t)
    ELSE [store |-> S, notices |-> <<>>, wrote |-> Null]

\* what the user types into #markdownEditor
TypedContents == {"Hello"}

\* click on a note card: selectNote(id)
SelectNote ==
    /\ \E id \in NoteIds :
          LET note == GetNote(notes, id)
          IN  /\ IF note = Absent
                 THEN UNCHANGED <<currentNoteId, editor>>
                 ELSE /\ currentNoteId' = id
                      /\ editor' = [title |-> note.title, content |-> note.content,
                                    tags |-> note.tags]
              /\ last' = [op |-> "selectNote", id |-> id]
    /\ UNCHANGED <<storeVars, now, timerVars, notifications, exported, snapshot, dom,
                   saveTimeout, hist>>

\* an input event on #markdownEditor: clearTimeout, then setTimeout(..., 1000)
EditorInput ==
    /\ \E content \in TypedContents :
          /\ editor' = [editor EXCEPT !.content = content]
          /\ hist' = [hist EXCEPT !.typed = [id |-> currentNoteId, content |-> content]]
    /\ saveTimeout' = TRUE
    /\ last' = [op |-> "input"]
    /\ UNCHANGED <<storeVars, now, timerVars, notifications, exported, snapshot, dom,
                   currentNoteId>>

\* the pending callback runs, one second after the last input
SaveTimeoutFires ==
    /\ saveTimeout
    /\ Len(notifications) < MaxNotifications
    /\ LET R == SaveTimeoutCallback(Store, currentNoteId, editor, now)
       IN  /\ Becomes(R.store)
           /\ notifications' = notifications \o R.notices
           /\ last' = [op |-> "saveTimeout", wrote |-> R.wrote]
    /\ saveTimeout' = FALSE
    /\ UNCHANGED <<now, timerVars, exported, snapshot, dom, currentNoteId, editor, hist>>

NextAutosave ==
    \/ AdvanceClock
    \/ FileNote
    \/ SelectNote
    \/ EditorInput
    \/ SaveTimeoutFires

SpecAutosave == Init /\ [][NextAutosave]_vars

\* C22: with autoSave enabled, under every interleaving of editor input,
\* note selection and the debounced save callback, once the callback has run
\* the content typed while note A was selected is stored in note A, and the
\* callback has written no note other than A.
C22_AutosaveWritesTheNoteTypedInto ==
    (last.op = "saveTimeout" /\ hist.typed.id # Null /\ settings.autoSave)
        => /\ GetNote(notes, hist.typed.id).content = hist.typed.content
           /\ last.wrote \in {Null, hist.typed.id}

----------------------------------------------------------------------------
(* Files that parse but hold an ill-typed value: SpecPartial               *)

\* a file with value text added under the key tags
WithTags(file, text) == <<"object", Append(file[2], <<"tags", text>>)>>

\* {"notes": [...], "tags": 5} and {"tags": 5}
IllTypedFiles ==
    { WithTags(StringifyExport([notes |-> PayloadValues.notes]), <<"number", 5>>),
      WithTags(<<"object", <<>>>>, <<"number", 5>>) }

\* the page opens on a localStorage that holds a note and its tag
StoredNotes ==
    SetItem(SetItem(EmptyStorage, "notes", << NewNote("Test", "Hi", <<"a">>, "work", 0) >>),
            "tags", << [name |-> "a", count |-> 1] >>)

InitPartial == \E tagsCloud \in BOOLEAN : Constructed(StoredNotes, tagsCloud)

ImportIllTyped == ImportFrom(IllTypedFiles)

NextPartial ==
    \/ CreateFolder
    \/ CreateTask
    \/ ToggleTheme
    \/ ImportIllTyped
    \/ ImportMalformed

SpecPartial == InitPartial /\ [][NextPartial]_vars

\* C23: whenever importData shows the failure notification, also for a file
\* that parses but holds an ill-typed value under a later key, no persisted
\* record and no collection in memory differs from its value before the
\* import.
C23_FailedImportChangesNothing ==
    (last.op = "import" /\ notifications[Len(notifications)] = ImportFailed)
        => /\ ls = last.before.ls
           /\ notes = last.before.notes
           /\ folders = last.before.folders
           /\ tasks = last.before.tasks
           /\ settings = last.before.settings
           /\ tags = last.before.tags

====
